---- MODULE Spec2Model ----
(***************************************************************************)
(* Pig dice game: the match loop (game.py, PigGame.play), the player       *)
(* record (player.py), the decision policy (temp_intelligence.py) and the  *)
(* score ledger (score.py).                                                *)
(*                                                                         *)
(* One step of the model is one pass through the inner loop of             *)
(* PigGame.play: a decision is obtained (a command read from the human, or *)
(* Intelligence.decide for an automated player), its branch is executed,   *)
(* and, when the branch ends the turn, the index flip at the bottom of the *)
(* outer loop and the turn_total reset at its top are part of the step.    *)
(***************************************************************************)
EXTENDS Integers, Sequences, FiniteSets, TLC

\* ------------------------------------------------------------------ bounds
\* Number of decisions (human commands and policy decisions) one play() takes
\* before its input runs out; a human then only gets end of input.
MaxSteps == 5

\* Largest turn total handed to the policy when it is exercised on its own.
MaxTurnTotal == 31

\* Largest amount, in absolute value, handed to add_score and set_score when
\* Player is exercised on its own, and the number of calls made on it.
MaxPoints == 2
MaxCalls == 3

\* Longest list of players handed to the PigGame constructor.
MaxPlayers == 3

\* Number of calls made on a Score when it is exercised on its own.
MaxLedgerCalls == 4
MaxAiDecisions == 16

\* ------------------------------------------------------- program constants
Sides == 6
cheat_points == 50
PolicyWinScore == 100
DefaultWinningScore == 100

Today == "today"

\* Values of winning_score a match is constructed with.
WinningScores == {10, DefaultWinningScore}

\* Lines typed at the name prompt, and what str.strip makes of them.
RawNames == {"", "  ", "Neo", " Neo ", "P1", "P2"}

strip(raw) ==
    CASE raw = "  " -> ""
      [] raw = " Neo " -> "Neo"
      [] OTHER -> raw

Levels == {"easy", "medium", "hard"}

\* Lines typed at the difficulty prompt ("" is Enter, EOF is end of input).
RawLevels == Levels \cup {"", "EOF"}

\* The command table of _prompt_cmd.
valid ==
    [c \in {"r", "roll", "h", "hold", "c", "cheat", "n", "name", "ai", "q",
            "quit", "restart", "help", "?"} |->
        CASE c \in {"r", "roll"} -> "roll"
          [] c \in {"h", "hold"} -> "hold"
          [] c \in {"c", "cheat"} -> "cheat"
          [] c \in {"n", "name"} -> "name"
          [] c = "ai" -> "ai"
          [] c \in {"q", "quit"} -> "quit"
          [] c = "restart" -> "restart"
          [] OTHER -> "help"]

\* Lines typed at the command prompt: the table's keys and two that are not.
RawCmds == DOMAIN valid \cup {"x", ""}

\* What DiceHand.roll() can return: one face, or an empty list.
\* A die with two more faces.
Faces_EightSided == 1 .. Sides + 2

Faces == 1 .. Sides
Rolls == {<<f>> : f \in Faces} \cup {<<>>}

VARIABLES
    players,        \* PigGame.players: <<p0, p1>>, each [name, is_ai, total_score]
    current_index,  \* PigGame.current_index
    turn_total,     \* PigGame.turn_total
    running,        \* PigGame.running
    values,         \* DiceHand.values: the last roll, <<>> before any
    winning_score,  \* PigGame.winning_score
    difficulty,     \* Intelligence.difficulty
    hold_threshold, \* Intelligence.hold_threshold
    scores,         \* Score.scores: the entries in dict insertion order
    file,           \* the JSON document at Score.file_path
    pc,             \* where play() is: "constructed", "decide", "returned"
    branch,         \* the branch of play() the last step executed
    recorded,       \* the record_game calls made so far: <<name, points>>
    steps,          \* decisions taken so far
    prev,           \* the match and ledger state before the last step
    ret,            \* the last call made on a collaborator: [op, args, val]
    attrs           \* the attributes the PigGame object has

vars == <<players, current_index, turn_total, running, values, winning_score,
          difficulty, hold_threshold, scores, file, pc, branch, recorded,
          steps, prev, ret, attrs>>

\* A call and what it gave: the value returned, or the exception raised.
Call(op, args, val) == [op |-> op, args |-> args, val |-> val]

NoCall == Call("none", <<>>, "None")

\* The attributes PigGame.__init__ assigns.
GameAttrs ==
    {"players", "score_manager", "winning_score", "dice_hand", "ai_agent",
     "current_index", "turn_total", "running"}

\* ------------------------------------------------------------------ Player
Player(name, is_ai) == [name |-> name, is_ai |-> is_ai, total_score |-> 0]

set_score(p, score) ==
    IF score < 0 THEN p ELSE [p EXCEPT !.total_score = score]

\* add_score without the check of its argument.
add_score_Unchecked(p, points) == [p EXCEPT !.total_score = @ + points]

\* The check both setters make first: ValueError for a negative amount.
raises_ValueError(amount) == amount < 0

add_score(p, points) ==
    IF points < 0 THEN p ELSE [p EXCEPT !.total_score = @ + points]

reset_score(p) == [p EXCEPT !.total_score = 0]

set_name(p, name) == IF name = "" THEN p ELSE [p EXCEPT !.name = name]

\* ------------------------------------------------------------------- Score
\* The file at file_path: whether it exists, and the document in it.
NoFile == [exists |-> FALSE, doc |-> <<>>]

Keys(s) == {s[i].name : i \in 1 .. Len(s)}

IndexOf(s, name) == CHOOSE i \in 1 .. Len(s) : s[i].name = name

Entry(s, name) == s[IndexOf(s, name)]

Remove(s, i) == SubSeq(s, 1, i - 1) \o SubSeq(s, i + 1, Len(s))

\* json.dump of the dict: one member per key, in insertion order.
Dump(s) ==
    [i \in 1 .. Len(s) |->
        <<s[i].name, [games |-> s[i].games, total_points |-> s[i].total_points]>>]

\* Loading that hands back every history newest game first.
load_scores_NewestFirst(f) ==
    IF ~f.exists
    THEN <<>>
    ELSE [i \in 1 .. Len(f.doc) |->
            [name |-> f.doc[i][1],
             games |-> [j \in 1 .. Len(f.doc[i][2].games) |->
                          f.doc[i][2].games[Len(f.doc[i][2].games) + 1 - j]],
             total_points |-> f.doc[i][2].total_points]]

\* json.load of the document; a missing file gives the empty dict.
load_scores(f) ==
    IF ~f.exists
    THEN <<>>
    ELSE [i \in 1 .. Len(f.doc) |->
            [name |-> f.doc[i][1], games |-> f.doc[i][2].games,
             total_points |-> f.doc[i][2].total_points]]

\* open(file_path, "w") and json.dump: the file holds the new document only.
save_scores(s) == [exists |-> TRUE, doc |-> Dump(s)]

\* record_game that ignores a negative result.
record_game_SkipsNegative(s, player_name, points) ==
    IF points < 0 THEN s
    ELSE LET s1 == IF player_name \notin Keys(s)
                   THEN Append(s, [name |-> player_name, games |-> <<>>,
                                   total_points |-> 0])
                   ELSE s
             i == IndexOf(s1, player_name)
         IN  [s1 EXCEPT
                ![i].games = Append(@, [date |-> Today, points |-> points]),
                ![i].total_points = @ + points]

record_game(s, player_name, points) ==
    LET s1 == IF player_name \notin Keys(s)
              THEN Append(s, [name |-> player_name, games |-> <<>>,
                              total_points |-> 0])
              ELSE s
        i == IndexOf(s1, player_name)
    IN  [s1 EXCEPT ![i].games = Append(@, [date |-> Today, points |-> points]),
                   ![i].total_points = @ + points]

\* rename_player: its return value, the dict it leaves, whether it saves.
rename_returns(s, old_name, new_name) == old_name \in Keys(s)

\* Merge that moves the games but not the points.
rename_player_MergeKeepsTotal(s, old_name, new_name) ==
    IF old_name \notin Keys(s) THEN s
    ELSE IF old_name = new_name THEN s
    ELSE IF new_name \in Keys(s)
    THEN LET o == Entry(s, old_name)
             j == IndexOf(s, new_name)
             merged == [s EXCEPT ![j].games = @ \o o.games]
         IN  Remove(merged, IndexOf(merged, old_name))
    ELSE Append(Remove(s, IndexOf(s, old_name)),
                [Entry(s, old_name) EXCEPT !.name = new_name])

\* Merge that puts the old name's games in front.
rename_player_MergePrepends(s, old_name, new_name) ==
    IF old_name \notin Keys(s) THEN s
    ELSE IF old_name = new_name THEN s
    ELSE IF new_name \in Keys(s)
    THEN LET o == Entry(s, old_name)
             j == IndexOf(s, new_name)
             merged == [s EXCEPT ![j].games = o.games \o @,
                                 ![j].total_points = @ + o.total_points]
         IN  Remove(merged, IndexOf(merged, old_name))
    ELSE Append(Remove(s, IndexOf(s, old_name)),
                [Entry(s, old_name) EXCEPT !.name = new_name])

\* Pure rename that copies the entry and keeps the old one.
rename_player_KeepsOld(s, old_name, new_name) ==
    IF old_name \notin Keys(s) THEN s
    ELSE IF old_name = new_name THEN s
    ELSE IF new_name \in Keys(s)
    THEN LET o == Entry(s, old_name)
             j == IndexOf(s, new_name)
             merged == [s EXCEPT ![j].games = @ \o o.games,
                                 ![j].total_points = @ + o.total_points]
         IN  Remove(merged, IndexOf(merged, old_name))
    ELSE Append(s, [Entry(s, old_name) EXCEPT !.name = new_name])

\* Merge that overwrites the new name's entry with the old one.
rename_player_MergeOverwrites(s, old_name, new_name) ==
    IF old_name \notin Keys(s) THEN s
    ELSE IF old_name = new_name THEN s
    ELSE IF new_name \in Keys(s)
    THEN LET o == Entry(s, old_name)
             j == IndexOf(s, new_name)
             merged == [s EXCEPT ![j].games = o.games,
                                 ![j].total_points = o.total_points]
         IN  Remove(merged, IndexOf(merged, old_name))
    ELSE Append(Remove(s, IndexOf(s, old_name)),
                [Entry(s, old_name) EXCEPT !.name = new_name])

rename_player(s, old_name, new_name) ==
    IF old_name \notin Keys(s) THEN s
    ELSE IF old_name = new_name THEN s
    ELSE IF new_name \in Keys(s)
    THEN LET o == Entry(s, old_name)
             j == IndexOf(s, new_name)
             merged == [s EXCEPT ![j].games = @ \o o.games,
                                 ![j].total_points = @ + o.total_points]
         IN  Remove(merged, IndexOf(merged, old_name))
    ELSE Append(Remove(s, IndexOf(s, old_name)),
                [Entry(s, old_name) EXCEPT !.name = new_name])

\* Saving whenever the old name is known, the same-name case included.
rename_saves_Always(s, old_name, new_name) == old_name \in Keys(s)

\* Saving only when the entry moves to a name that had none.
rename_saves_OnlyPureRename(s, old_name, new_name) ==
    old_name \in Keys(s) /\ old_name # new_name /\ new_name \notin Keys(s)

rename_saves(s, old_name, new_name) ==
    old_name \in Keys(s) /\ old_name # new_name

clear_scores(s) == <<>>

\* self.scores.items(): (name, stats) pairs in insertion order.
items(s) ==
    [i \in 1 .. Len(s) |->
        <<s[i].name, [games |-> s[i].games, total_points |-> s[i].total_points]>>]

\* sorted(..., reverse=True) is stable: an item goes behind every item whose
\* key is at least its own, before the first item with a smaller key.
InsertRanked(r, e) ==
    LET smaller == {i \in 1 .. Len(r) :
                       r[i][2].total_points < e[2].total_points}
        k == IF smaller = {} THEN Len(r) + 1
             ELSE CHOOSE i \in smaller : \A j \in smaller : i <= j
    IN  SubSeq(r, 1, k - 1) \o <<e>> \o SubSeq(r, k, Len(r))

RECURSIVE Ranked(_, _)
Ranked(its, n) ==
    IF n = 0 THEN <<>> ELSE InsertRanked(Ranked(its, n - 1), its[n])

\* An ascending sort read backwards: equal keys come out in reverse order.
InsertRanked_TiesReversed(r, e) ==
    LET smaller == {i \in 1 .. Len(r) :
                       r[i][2].total_points <= e[2].total_points}
        k == IF smaller = {} THEN Len(r) + 1
             ELSE CHOOSE i \in smaller : \A j \in smaller : i <= j
    IN  SubSeq(r, 1, k - 1) \o <<e>> \o SubSeq(r, k, Len(r))

RECURSIVE Ranked_TiesReversed(_, _)
Ranked_TiesReversed(its, n) ==
    IF n = 0 THEN <<>>
    ELSE InsertRanked_TiesReversed(Ranked_TiesReversed(its, n - 1), its[n])

get_high_scores_TiesReversed(s) == Ranked_TiesReversed(items(s), Len(s))

get_high_scores(s) == Ranked(items(s), Len(s))

\* ------------------------------------------------------------ Intelligence
\* set_difficulty that leaves the hard level on the medium threshold.
set_difficulty_HardAt20(level) ==
    [difficulty |-> level,
     hold_threshold |-> IF level = "easy" THEN 15 ELSE 20]

\* set_difficulty for a valid level: the (difficulty, hold_threshold) it sets.
set_difficulty(level) ==
    [difficulty |-> level,
     hold_threshold |-> IF level = "easy" THEN 15
                        ELSE IF level = "medium" THEN 20 ELSE 25]

\* Hard policy that already counts a lead of exactly 15 as far ahead.
decide_hard_GapAtFifteen(h, t, my_score, opponent_score) ==
    LET score_gap == my_score - opponent_score
        b1 == IF score_gap < 0 THEN h + 3
              ELSE IF score_gap >= 15 THEN h - 3 ELSE h
        base_threshold == IF opponent_score >= 90 THEN b1 - 2 ELSE b1
    IN  IF 12 * (my_score + t) + 35 >= 12 * PolicyWinScore
        THEN (IF 175 > 12 * t THEN "roll" ELSE "hold")
        ELSE IF t >= base_threshold THEN "hold"
        ELSE IF t < 30 THEN "roll" ELSE "hold"

\* Hard policy that raises the threshold by 6 when behind.
decide_hard_BehindAddsSix(h, t, my_score, opponent_score) ==
    LET score_gap == my_score - opponent_score
        b1 == IF score_gap < 0 THEN h + 6
              ELSE IF score_gap > 15 THEN h - 3 ELSE h
        base_threshold == IF opponent_score >= 90 THEN b1 - 2 ELSE b1
    IN  IF 12 * (my_score + t) + 35 >= 12 * PolicyWinScore
        THEN (IF 175 > 12 * t THEN "roll" ELSE "hold")
        ELSE IF t >= base_threshold THEN "hold"
        ELSE IF t < 30 THEN "roll" ELSE "hold"

\* Hard policy whose risk rule already holds from a turn total of 24.
decide_hard_RiskAtFour(h, t, my_score, opponent_score) ==
    LET score_gap == my_score - opponent_score
        b1 == IF score_gap < 0 THEN h + 3
              ELSE IF score_gap > 15 THEN h - 3 ELSE h
        base_threshold == IF opponent_score >= 90 THEN b1 - 2 ELSE b1
    IN  IF 12 * (my_score + t) + 35 >= 12 * PolicyWinScore
        THEN (IF 175 > 12 * t THEN "roll" ELSE "hold")
        ELSE IF t >= base_threshold THEN "hold"
        ELSE IF t < 24 THEN "roll" ELSE "hold"

\* 5/6 * 3.5 = 35/12, so the comparisons are made on twelfths and on
\* seventy-seconds: my + t + 35/12 >= 100, (5/6)(35/12) > t/6, t/6 < 5.
decide_hard(h, t, my_score, opponent_score) ==
    LET score_gap == my_score - opponent_score
        b1 == IF score_gap < 0 THEN h + 3
              ELSE IF score_gap > 15 THEN h - 3 ELSE h
        base_threshold == IF opponent_score >= 90 THEN b1 - 2 ELSE b1
    IN  IF 12 * (my_score + t) + 35 >= 12 * PolicyWinScore
        THEN (IF 175 > 12 * t THEN "roll" ELSE "hold")
        ELSE IF t >= base_threshold THEN "hold"
        ELSE IF t < 30 THEN "roll" ELSE "hold"

\* Policy whose easy level holds only above the threshold.
decide_EasyStrict(d, h, t, my_score, opponent_score) ==
    IF my_score + t >= PolicyWinScore THEN "hold"
    ELSE IF d = "easy" THEN (IF t > h THEN "hold" ELSE "roll")
    ELSE IF d = "medium"
    THEN (IF t >= h THEN "hold"
          ELSE IF opponent_score > 85
          THEN (IF t >= 18 THEN "hold" ELSE "roll")
          ELSE "roll")
    ELSE decide_hard(h, t, my_score, opponent_score)

\* Policy whose medium level lowers the threshold from an opponent at 85.
decide_MediumAt85(d, h, t, my_score, opponent_score) ==
    IF my_score + t >= PolicyWinScore THEN "hold"
    ELSE IF d = "easy" THEN (IF t >= h THEN "hold" ELSE "roll")
    ELSE IF d = "medium"
    THEN (IF t >= h THEN "hold"
          ELSE IF opponent_score >= 85
          THEN (IF t >= 18 THEN "hold" ELSE "roll")
          ELSE "roll")
    ELSE decide_hard(h, t, my_score, opponent_score)

decide(d, h, t, my_score, opponent_score) ==
    IF my_score + t >= PolicyWinScore THEN "hold"
    ELSE IF d = "easy" THEN (IF t >= h THEN "hold" ELSE "roll")
    ELSE IF d = "medium"
    THEN (IF t >= h THEN "hold"
          ELSE IF opponent_score > 85
          THEN (IF t >= 18 THEN "hold" ELSE "roll")
          ELSE "roll")
    ELSE decide_hard(h, t, my_score, opponent_score)

\* ----------------------------------------------------------------- PigGame
current == players[current_index + 1]
opponent == players[(1 - current_index) + 1]

Snapshot ==
    [players |-> players, current_index |-> current_index,
     turn_total |-> turn_total, scores |-> scores, file |-> file,
     difficulty |-> difficulty, hold_threshold |-> hold_threshold,
     recorded |-> recorded, running |-> running, pc |-> pc]

\* Ledger files a match can find at start-up.
Game(points) == [date |-> Today, points |-> points]

InitFiles ==
    { NoFile,
      [exists |-> TRUE,
       doc |-> << <<"Neo", [games |-> <<Game(5)>>, total_points |-> 5]>>,
                  <<"P1", [games |-> <<Game(10)>>, total_points |-> 10]>> >>] }

\* Who is automated: two humans (start_two_player), or a human against the
\* computer (start_single_player).
InitKinds == {<<FALSE, FALSE>>, <<FALSE, TRUE>>}

\* total_score of the two players when play() is entered: fresh players, or
\* the first one set to the target through set_score beforehand.
InitTotals == {<<0, 0>>, <<winning_score, 0>>}

Init ==
    /\ winning_score \in WinningScores
    /\ \E k \in InitKinds, s \in InitTotals :
          players = <<set_score(Player("P1", k[1]), s[1]),
                      set_score(Player("P2", k[2]), s[2])>>
    /\ current_index = 0
    /\ turn_total = 0
    /\ running = TRUE
    /\ values = <<>>
    /\ difficulty \in (IF \E i \in 1 .. 2 : players[i].is_ai
                       THEN Levels ELSE {"medium"})
    /\ hold_threshold = set_difficulty(difficulty).hold_threshold
    /\ file \in InitFiles
    /\ scores = load_scores(file)
    /\ pc = "constructed"
    /\ branch = "init"
    /\ recorded = <<>>
    /\ steps = 0
    /\ prev = Snapshot
    /\ ret = NoCall
    /\ attrs = GameAttrs

\* --------------------------------------------------------------- play()
any_ai == \E i \in 1 .. 2 : players[i].is_ai

\* Bookkeeping of one pass through the inner loop; call is the call the pass
\* made on the score manager, when the claims need it.
StepCall(b, call) ==
    /\ branch' = b
    /\ prev' = Snapshot
    /\ steps' = steps + 1
    /\ ret' = call
    /\ UNCHANGED attrs

Step(b) == StepCall(b, NoCall)

Awaiting == pc = "decide" /\ steps < MaxSteps

\* EndTurn without line 347.
EndTurn_NoFlip ==
    /\ UNCHANGED current_index
    /\ turn_total' = 0
    /\ pc' = "decide"

\* Leaving the inner loop with running still TRUE: line 347 flips the index,
\* the outer loop's head resets turn_total and the next decision is awaited.
EndTurn ==
    /\ current_index' = 1 - current_index
    /\ turn_total' = 0
    /\ pc' = "decide"

\* The next pass of the inner loop, same turn.
Continue == pc' = "decide" /\ UNCHANGED current_index

\* RecordWin without the return that follows record_game.
RecordWin_NoReturn ==
    /\ scores' = record_game(scores, players'[current_index + 1].name,
                             players'[current_index + 1].total_score)
    /\ file' = save_scores(scores')
    /\ recorded' = Append(recorded, <<players'[current_index + 1].name,
                                      players'[current_index + 1].total_score>>)
    /\ pc' = "decide"
    /\ UNCHANGED current_index

\* RecordWin under the name the player was constructed with.
RecordWin_FirstName ==
    /\ scores' = record_game(scores,
                             IF current_index = 0 THEN "P1" ELSE "P2",
                             players'[current_index + 1].total_score)
    /\ file' = save_scores(scores')
    /\ recorded' = Append(recorded,
                          <<IF current_index = 0 THEN "P1" ELSE "P2",
                            players'[current_index + 1].total_score>>)
    /\ pc' = "returned"
    /\ UNCHANGED current_index

\* score_manager.record_game(current.name, current.total_score) after the
\* score was committed, followed by return.
RecordWin ==
    /\ scores' = record_game(scores, players'[current_index + 1].name,
                             players'[current_index + 1].total_score)
    /\ file' = save_scores(scores')
    /\ recorded' = Append(recorded, <<players'[current_index + 1].name,
                                      players'[current_index + 1].total_score>>)
    /\ pc' = "returned"
    /\ UNCHANGED current_index

NoLedger == UNCHANGED <<scores, file, recorded>>

AddToCurrent(points) ==
    players' = [players EXCEPT ![current_index + 1] = add_score(@, points)]

\* The win tests with > for >=.
RollWins_Strict(total_score, total) == total_score + total > winning_score

HoldWins_Strict(total_score) == total_score > winning_score

CheatWins_Strict(total_score) == total_score > winning_score

\* The win tests of the three branches.
RollWins(total_score, total) == total_score + total >= winning_score

HoldWins(total_score) == total_score >= winning_score

CheatWins(total_score) == total_score >= winning_score

\* Invalid roll that clears the turn total but lets the turn go on.
InvalidRoll_KeepsTurn ==
    /\ Step("invalid_roll")
    /\ turn_total' = 0
    /\ Continue
    /\ UNCHANGED players
    /\ NoLedger

\* roll is None: "Invalid roll. Turn lost."
InvalidRoll ==
    /\ Step("invalid_roll")
    /\ EndTurn
    /\ UNCHANGED players
    /\ NoLedger

\* Bust that also wipes the banked score.
Bust_LosesBanked ==
    /\ Step("bust")
    /\ EndTurn
    /\ players' = [players EXCEPT ![current_index + 1] = reset_score(@)]
    /\ NoLedger

\* Bust without turn_active = False.
Bust_NoTurnEnd ==
    /\ Step("bust")
    /\ turn_total' = 0
    /\ Continue
    /\ UNCHANGED players
    /\ NoLedger

\* roll == 1: "Oh no - rolled a 1. Turn lost."
Bust ==
    /\ Step("bust")
    /\ EndTurn
    /\ UNCHANGED players
    /\ NoLedger

\* roll > 1: the face is added, and the turn total is committed when it wins.
RollOn(roll) ==
    /\ turn_total' = turn_total + roll
    /\ IF RollWins(current.total_score, turn_total')
       THEN /\ Step("win_roll")
            /\ AddToCurrent(turn_total')
            /\ RecordWin
       ELSE /\ Step("rolled")
            /\ Continue
            /\ UNCHANGED players
            /\ NoLedger

\* decision == "roll"
DoRoll(rolled) ==
    /\ UNCHANGED <<running, winning_score, difficulty, hold_threshold>>
    /\ values' = rolled
    /\ IF rolled = <<>> THEN InvalidRoll
       ELSE IF rolled[1] = 1 THEN Bust
       ELSE RollOn(rolled[1])

\* decision == "hold"
DoHold ==
    /\ UNCHANGED <<running, values, winning_score, difficulty, hold_threshold>>
    /\ AddToCurrent(turn_total)
    /\ IF HoldWins(players'[current_index + 1].total_score)
       THEN /\ Step("win_hold")
            /\ UNCHANGED turn_total
            /\ RecordWin
       ELSE /\ Step("banked")
            /\ EndTurn
            /\ NoLedger

\* Cheat that banks the turn total along with the bonus.
DoCheat_AddsTurn ==
    /\ UNCHANGED <<running, values, winning_score, difficulty, hold_threshold>>
    /\ AddToCurrent(cheat_points + turn_total)
    /\ IF CheatWins(players'[current_index + 1].total_score)
       THEN /\ Step("win_cheat")
            /\ UNCHANGED turn_total
            /\ RecordWin
       ELSE /\ Step("cheated")
            /\ EndTurn
            /\ NoLedger

\* decision == "cheat"
DoCheat ==
    /\ UNCHANGED <<running, values, winning_score, difficulty, hold_threshold>>
    /\ AddToCurrent(cheat_points)
    /\ IF CheatWins(players'[current_index + 1].total_score)
       THEN /\ Step("win_cheat")
            /\ UNCHANGED turn_total
            /\ RecordWin
       ELSE /\ Step("cheated")
            /\ EndTurn
            /\ NoLedger

\* _prompt_cmd returns cmd: some line of the table that maps to it was typed.
Typed(cmd) == cmd \in {valid[raw] : raw \in RawCmds \cap DOMAIN valid}

\* play() is entered: running is set and the first turn begins.
Play ==
    /\ pc = "constructed"
    /\ running' = TRUE
    /\ turn_total' = 0
    /\ pc' = "decide"
    /\ branch' = "turn_start"
    /\ prev' = Snapshot
    /\ ret' = NoCall
    /\ UNCHANGED attrs
    /\ UNCHANGED <<players, current_index, values, winning_score, difficulty,
                   hold_threshold, scores, file, recorded, steps>>

\* Unknown command that falls through to the outer loop's head.
Unknown_DropsTurnTotal ==
    /\ Awaiting /\ ~current.is_ai
    /\ RawCmds \ DOMAIN valid # {}
    /\ Step("unknown")
    /\ turn_total' = 0
    /\ UNCHANGED <<players, current_index, running, values, winning_score,
                   difficulty, hold_threshold, scores, file, recorded, pc>>

\* _prompt_cmd rejects a line that is not in its table and asks again.
Unknown ==
    /\ Awaiting /\ ~current.is_ai
    /\ RawCmds \ DOMAIN valid # {}
    /\ Step("unknown")
    /\ UNCHANGED <<players, current_index, turn_total, running, values,
                   winning_score, difficulty, hold_threshold, scores, file,
                   recorded, pc>>

Help ==
    /\ Awaiting /\ ~current.is_ai
    /\ Typed("help")
    /\ Step("help")
    /\ UNCHANGED <<players, current_index, turn_total, running, values,
                   winning_score, difficulty, hold_threshold, scores, file,
                   recorded, pc>>

\* Quit that banks the turn total on the way out.
QuitBody_Banks(b) ==
    /\ Step(b)
    /\ running' = FALSE
    /\ pc' = "returned"
    /\ AddToCurrent(turn_total)
    /\ UNCHANGED <<current_index, turn_total, values, winning_score,
                   difficulty, hold_threshold, scores, file, recorded>>

QuitBody(b) ==
    /\ Step(b)
    /\ running' = FALSE
    /\ pc' = "returned"
    /\ UNCHANGED <<players, current_index, turn_total, values, winning_score,
                   difficulty, hold_threshold, scores, file, recorded>>

Quit ==
    /\ Awaiting /\ ~current.is_ai
    /\ Typed("quit")
    /\ QuitBody("quit")

\* EOFError or KeyboardInterrupt at the command prompt is read as "quit";
\* it is what a human gets once the input has run out.
EndOfInput ==
    /\ pc = "decide" /\ steps <= MaxSteps /\ ~current.is_ai
    /\ QuitBody("eof")

\* Restart that resets the current player only.
RestartBody_OnlyCurrent ==
    /\ Step("restart")
    /\ players' = [players EXCEPT ![current_index + 1] = reset_score(@)]
    /\ EndTurn
    /\ NoLedger
    /\ UNCHANGED <<running, values, winning_score, difficulty, hold_threshold>>

RestartBody ==
    /\ Step("restart")
    /\ players' = [i \in 1 .. 2 |-> reset_score(players[i])]
    /\ EndTurn
    /\ NoLedger
    /\ UNCHANGED <<running, values, winning_score, difficulty, hold_threshold>>

Restart ==
    /\ Awaiting /\ ~current.is_ai
    /\ Typed("restart")
    /\ RestartBody

\* decision == "ai": level is what _prompt_ai_level returns, None for Enter
\* or end of input (lines it rejects are asked again inside the prompt).
AiBody(raw_level) ==
    /\ IF ~any_ai
       THEN /\ Step("ai_none")
            /\ UNCHANGED <<difficulty, hold_threshold>>
       ELSE IF raw_level \in Levels
       THEN /\ Step("ai_set")
            /\ difficulty' = set_difficulty(raw_level).difficulty
            /\ hold_threshold' = set_difficulty(raw_level).hold_threshold
       ELSE /\ Step("ai_cancel")
            /\ UNCHANGED <<difficulty, hold_threshold>>
    /\ Continue
    /\ NoLedger
    /\ UNCHANGED <<players, turn_total, running, values, winning_score>>

Ai ==
    /\ Awaiting /\ ~current.is_ai
    /\ Typed("ai")
    /\ \E raw_level \in RawLevels : AiBody(raw_level)

\* Rename that keeps the old name when the ledger had nothing to migrate.
NameBody_KeepsNameWithoutStats(raw_name) ==
    LET new_name == IF raw_name = "EOF" THEN "" ELSE strip(raw_name)
        old == current.name
    IN  /\ IF new_name = ""
           THEN /\ Step("name_cancel")
                /\ UNCHANGED <<players, scores, file>>
           ELSE /\ StepCall(IF rename_returns(scores, old, new_name)
                            THEN "renamed" ELSE "renamed_local",
                            Call("rename_player", <<old, new_name>>,
                                 IF rename_returns(scores, old, new_name)
                                 THEN "True" ELSE "False"))
                /\ scores' = rename_player(scores, old, new_name)
                /\ file' = IF rename_saves(scores, old, new_name)
                           THEN save_scores(scores') ELSE file
                /\ players' = IF rename_returns(scores, old, new_name)
                              THEN [players EXCEPT
                                      ![current_index + 1] = set_name(@, new_name)]
                              ELSE players
        /\ Continue
        /\ UNCHANGED <<turn_total, running, values, winning_score,
                       difficulty, hold_threshold, recorded>>

\* decision == "name": raw_name is the line typed, "EOF" for end of input.
NameBody(raw_name) ==
    LET new_name == IF raw_name = "EOF" THEN "" ELSE strip(raw_name)
        old == current.name
    IN  /\ IF new_name = ""
           THEN /\ Step("name_cancel")
                /\ UNCHANGED <<players, scores, file>>
           ELSE /\ StepCall(IF rename_returns(scores, old, new_name)
                            THEN "renamed" ELSE "renamed_local",
                            Call("rename_player", <<old, new_name>>,
                                 IF rename_returns(scores, old, new_name)
                                 THEN "True" ELSE "False"))
                /\ scores' = rename_player(scores, old, new_name)
                /\ file' = IF rename_saves(scores, old, new_name)
                           THEN save_scores(scores') ELSE file
                /\ players' = [players EXCEPT
                                 ![current_index + 1] = set_name(@, new_name)]
        /\ Continue
        /\ UNCHANGED <<turn_total, running, values, winning_score,
                       difficulty, hold_threshold, recorded>>

Name ==
    /\ Awaiting /\ ~current.is_ai
    /\ Typed("name")
    /\ \E raw_name \in RawNames \cup {"EOF"} : NameBody(raw_name)

Roll ==
    /\ Awaiting /\ ~current.is_ai
    /\ Typed("roll")
    /\ \E rolled \in Rolls : DoRoll(rolled)

Hold ==
    /\ Awaiting /\ ~current.is_ai
    /\ Typed("hold")
    /\ DoHold

Cheat ==
    /\ Awaiting /\ ~current.is_ai
    /\ Typed("cheat")
    /\ DoCheat

\* The policy decides, the branch is executed.
AiDecision ==
    LET decision == decide(difficulty, hold_threshold, turn_total,
                           current.total_score, opponent.total_score)
    IN  IF decision = "roll"
        THEN \E rolled \in Rolls : DoRoll(rolled)
        ELSE DoHold

\* An automated player's pass.
AiTurn ==
    /\ Awaiting /\ current.is_ai
    /\ AiDecision

Next ==
    \/ Play
    \/ Unknown
    \/ Help
    \/ Quit
    \/ EndOfInput
    \/ Restart
    \/ Ai
    \/ Name
    \/ Roll
    \/ Hold
    \/ Cheat
    \/ AiTurn

Spec == Init /\ [][Next]_vars

\* The match entered with both players fresh (total_score 0).
InitFresh ==
    /\ Init
    /\ \A i \in 1 .. 2 : players[i].total_score = 0

SpecFresh == InitFresh /\ [][Next]_vars

\* ------------------------------------------- the policy exercised alone
\* Levels handed to set_difficulty: the three it knows and one it rejects.
PolicyLevels == Levels \cup {"impossible"}

\* Opponent scores around the policy's breakpoints (85, 90, the gap of 15).
OpponentScores == {0, 50, 70, 85, 86, 89, 90, 92}

\* A single-player match as menu.py builds it, at a decision of the
\* computer: Intelligence() with its defaults, any turn total, any own score
\* up to the target.
InitPolicy ==
    /\ winning_score \in WinningScores
    /\ \E my_score \in 0 .. winning_score, opponent_score \in OpponentScores :
          players = <<set_score(Player("P1", FALSE), opponent_score),
                      set_score(Player("Computer", TRUE), my_score)>>
    /\ current_index = 1
    /\ turn_total \in 0 .. MaxTurnTotal
    /\ running = TRUE
    /\ values = <<>>
    /\ difficulty = "medium"
    /\ hold_threshold = 20
    /\ file = NoFile
    /\ scores = load_scores(file)
    /\ pc = "decide"
    /\ branch = "init"
    /\ recorded = <<>>
    /\ steps = 0
    /\ prev = Snapshot
    /\ ret = NoCall
    /\ attrs = GameAttrs

\* ai_agent.set_difficulty(level): ValueError before anything is assigned
\* when the level is not one of the three.
SetDifficultyCall ==
    \E level \in PolicyLevels :
        /\ IF level \in Levels
           THEN /\ difficulty' = set_difficulty(level).difficulty
                /\ hold_threshold' = set_difficulty(level).hold_threshold
                /\ ret' = Call("set_difficulty", <<level>>, "None")
           ELSE /\ UNCHANGED <<difficulty, hold_threshold>>
                /\ ret' = Call("set_difficulty", <<level>>, "ValueError")
        /\ prev' = Snapshot
        /\ UNCHANGED <<players, current_index, turn_total, running, values,
                       winning_score, scores, file, pc, branch, recorded,
                       steps, attrs>>

\* A decision that leaves the policy on the hard level.
DecideCall_SwitchesLevel ==
    /\ ret' = Call("decide",
                   <<turn_total, current.total_score, opponent.total_score>>,
                   decide(difficulty, hold_threshold, turn_total,
                          current.total_score, opponent.total_score))
    /\ prev' = Snapshot
    /\ difficulty' = "hard"
    /\ hold_threshold' = 25
    /\ UNCHANGED <<players, current_index, turn_total, running, values,
                   winning_score, scores, file, pc, branch, recorded, steps,
                   attrs>>

\* ai_agent.decide(turn_total, current.total_score, opponent.total_score)
DecideCall ==
    /\ ret' = Call("decide",
                   <<turn_total, current.total_score, opponent.total_score>>,
                   decide(difficulty, hold_threshold, turn_total,
                          current.total_score, opponent.total_score))
    /\ prev' = Snapshot
    /\ UNCHANGED <<players, current_index, turn_total, running, values,
                   winning_score, difficulty, hold_threshold, scores, file,
                   pc, branch, recorded, steps, attrs>>

NextPolicy == SetDifficultyCall \/ DecideCall

SpecPolicy == InitPolicy /\ [][NextPolicy]_vars

\* The same calls from fewer starting points, for properties of whole
\* sequences of calls: turn totals and own scores at the policy's breakpoints.
RepeatTurnTotals == {0, 10, 14, 15, 18, 20, 22, 25, 28, 30}

RepeatScores == {0, 5, 50, 70, 97}

InitRepeat ==
    /\ InitPolicy
    /\ turn_total \in RepeatTurnTotals
    /\ current.total_score \in RepeatScores

SpecRepeat == InitRepeat /\ [][NextPolicy]_vars

\* ------------------------------------------- one automated turn, alone
\* The computer at the start of its turn in a match in progress: both
\* scores below the target, the level chosen through set_difficulty.
AiTurnScores == {0, 5, 50, 70, 97}

InitAiTurn ==
    /\ winning_score \in WinningScores
    /\ \E my_score \in {s \in AiTurnScores : s < winning_score},
          opponent_score \in {s \in OpponentScores : s < winning_score} :
          players = <<set_score(Player("P1", FALSE), opponent_score),
                      set_score(Player("Computer", TRUE), my_score)>>
    /\ current_index = 1
    /\ turn_total = 0
    /\ running = TRUE
    /\ values = <<>>
    /\ difficulty \in Levels
    /\ hold_threshold = set_difficulty(difficulty).hold_threshold
    /\ file = NoFile
    /\ scores = load_scores(file)
    /\ pc = "decide"
    /\ branch = "turn_start"
    /\ recorded = <<>>
    /\ steps = 0
    /\ prev = Snapshot
    /\ ret = NoCall
    /\ attrs = GameAttrs

\* One pass of the inner loop while the computer is the current player.
AiRun ==
    /\ pc = "decide" /\ current.is_ai
    /\ steps < MaxAiDecisions
    /\ AiDecision

NextAiTurn == AiRun

\* The inner loop runs on without waiting for input while the current
\* player is automated, so a pass that can be made is made.
SpecAiTurn == InitAiTurn /\ [][NextAiTurn]_vars /\ WF_vars(AiRun)

\* The policy at the start of the computer's turn, for targets up to one
\* above the policy's own 100: turn total 0, own score below the target.
ConfiguredWinningScores == WinningScores \cup {120}

InitProgress ==
    /\ winning_score \in ConfiguredWinningScores
    /\ \E my_score \in 0 .. winning_score - 1,
          opponent_score \in OpponentScores :
          players = <<set_score(Player("P1", FALSE), opponent_score),
                      set_score(Player("Computer", TRUE), my_score)>>
    /\ current_index = 1
    /\ turn_total = 0
    /\ running = TRUE
    /\ values = <<>>
    /\ difficulty = "medium"
    /\ hold_threshold = 20
    /\ file = NoFile
    /\ scores = load_scores(file)
    /\ pc = "decide"
    /\ branch = "turn_start"
    /\ recorded = <<>>
    /\ steps = 0
    /\ prev = Snapshot
    /\ ret = NoCall
    /\ attrs = GameAttrs

SpecProgress == InitProgress /\ [][NextPolicy]_vars

\* ------------------------------------------- Player exercised alone
\* Two fresh players; each step is one call of add_score, set_score or
\* reset_score on one of them, with any amount of either sign.
InitPlayer ==
    /\ players = <<Player("P1", FALSE), Player("P2", FALSE)>>
    /\ winning_score = DefaultWinningScore
    /\ current_index = 0
    /\ turn_total = 0
    /\ running = TRUE
    /\ values = <<>>
    /\ difficulty = "medium"
    /\ hold_threshold = 20
    /\ file = NoFile
    /\ scores = load_scores(file)
    /\ pc = "constructed"
    /\ branch = "init"
    /\ recorded = <<>>
    /\ steps = 0
    /\ prev = Snapshot
    /\ ret = NoCall
    /\ attrs = GameAttrs

PlayerCall(call) ==
    /\ steps < MaxCalls
    /\ steps' = steps + 1
    /\ ret' = call
    /\ prev' = Snapshot
    /\ UNCHANGED <<current_index, turn_total, running, values, winning_score,
                   difficulty, hold_threshold, scores, file, pc, branch,
                   recorded, attrs>>

AddScoreCall ==
    \E i \in 1 .. 2, points \in -MaxPoints .. MaxPoints :
        /\ PlayerCall(Call("add_score", <<i, points>>,
                           IF raises_ValueError(points)
                           THEN "ValueError" ELSE "None"))
        /\ players' = [players EXCEPT ![i] = add_score(@, points)]

SetScoreCall ==
    \E i \in 1 .. 2, score \in -MaxPoints .. MaxPoints :
        /\ PlayerCall(Call("set_score", <<i, score>>,
                           IF raises_ValueError(score)
                           THEN "ValueError" ELSE "None"))
        /\ players' = [players EXCEPT ![i] = set_score(@, score)]

ResetScoreCall ==
    \E i \in 1 .. 2 :
        /\ PlayerCall(Call("reset_score", <<i>>, "None"))
        /\ players' = [players EXCEPT ![i] = reset_score(@)]

NextPlayer == AddScoreCall \/ SetScoreCall \/ ResetScoreCall

SpecPlayer == InitPlayer /\ [][NextPlayer]_vars

\* ------------------------------------------- the PigGame constructor
\* Players a caller has at hand, and the lists it can pass.
PlayerPool ==
    {Player(name, FALSE) : name \in {"P1", "P2", "Neo"}}
        \cup {Player("Computer", TRUE)}

PlayerLists == UNION {[1 .. n -> PlayerPool] : n \in 0 .. MaxPlayers}

\* No PigGame yet: attrs is empty, and a variable whose attribute is not in
\* attrs stands for nothing.
InitConstruct ==
    /\ attrs = {}
    /\ pc = "absent"
    /\ players = <<>>
    /\ winning_score = DefaultWinningScore
    /\ current_index = 0
    /\ turn_total = 0
    /\ running = FALSE
    /\ values = <<>>
    /\ difficulty = "medium"
    /\ hold_threshold = 20
    /\ file = NoFile
    /\ scores = load_scores(file)
    /\ branch = "init"
    /\ recorded = <<>>
    /\ steps = 0
    /\ prev = Snapshot
    /\ ret = NoCall

\* __init__ that assigns first and counts the players afterwards.
Construct_ChecksLast ==
    \E ps \in PlayerLists, target \in WinningScores :
        /\ pc = "absent"
        /\ players' = ps
        /\ winning_score' = target
        /\ current_index' = 0
        /\ turn_total' = 0
        /\ running' = TRUE
        /\ attrs' = GameAttrs
        /\ IF Len(ps) # 2
           THEN /\ ret' = Call("PigGame", <<ps, target>>, "ValueError")
                /\ UNCHANGED pc
           ELSE /\ ret' = Call("PigGame", <<ps, target>>, "None")
                /\ pc' = "constructed"
        /\ prev' = Snapshot
        /\ UNCHANGED <<values, difficulty, hold_threshold, scores, file,
                       branch, recorded, steps>>

\* PigGame(ps, score_manager, winning_score = target)
Construct ==
    \E ps \in PlayerLists, target \in WinningScores :
        /\ pc = "absent"
        /\ IF Len(ps) # 2
           THEN /\ ret' = Call("PigGame", <<ps, target>>, "ValueError")
                /\ UNCHANGED <<players, winning_score, current_index,
                               turn_total, running, attrs, pc>>
           ELSE /\ ret' = Call("PigGame", <<ps, target>>, "None")
                /\ players' = ps
                /\ winning_score' = target
                /\ current_index' = 0
                /\ turn_total' = 0
                /\ running' = TRUE
                /\ attrs' = GameAttrs
                /\ pc' = "constructed"
        /\ prev' = Snapshot
        /\ UNCHANGED <<values, difficulty, hold_threshold, scores, file,
                       branch, recorded, steps>>

NextConstruct == Construct

SpecConstruct == InitConstruct /\ [][NextConstruct]_vars

\* ------------------------------------------- Score exercised alone
\* Names and points the calls are made with (zero and negative included).
LedgerNames == {"Lulu", "Anastasia", "Neo"}

LedgerPoints == {-5, 0, 10}

\* Score(file_path) where no file exists yet: the empty ledger.
InitScore ==
    /\ file = NoFile
    /\ scores = load_scores(file)
    /\ players = <<Player("P1", FALSE), Player("P2", FALSE)>>
    /\ winning_score = DefaultWinningScore
    /\ current_index = 0
    /\ turn_total = 0
    /\ running = TRUE
    /\ values = <<>>
    /\ difficulty = "medium"
    /\ hold_threshold = 20
    /\ pc = "constructed"
    /\ branch = "init"
    /\ recorded = <<>>
    /\ steps = 0
    /\ prev = Snapshot
    /\ ret = NoCall
    /\ attrs = GameAttrs

ScoreCall(call) ==
    /\ steps < MaxLedgerCalls
    /\ steps' = steps + 1
    /\ ret' = call
    /\ prev' = Snapshot
    /\ UNCHANGED <<players, current_index, turn_total, running, values,
                   winning_score, difficulty, hold_threshold, pc, branch,
                   recorded, attrs>>

\* save_scores where open(file_path, "w") may fail: the exception leaves the
\* file as it was and reaches the caller, after self.scores was updated.
Saved(writable) == IF writable THEN save_scores(scores') ELSE file

\* record_game that swallows the error of the write.
RecordGameCall_Swallows ==
    \E player_name \in LedgerNames, points \in LedgerPoints,
       writable \in BOOLEAN :
        /\ ScoreCall(Call("record_game", <<player_name, points>>, "None"))
        /\ scores' = record_game(scores, player_name, points)
        /\ file' = Saved(writable)

RecordGameCall ==
    \E player_name \in LedgerNames, points \in LedgerPoints,
       writable \in BOOLEAN :
        /\ ScoreCall(Call("record_game", <<player_name, points>>,
                          IF writable THEN "None" ELSE "OSError"))
        /\ scores' = record_game(scores, player_name, points)
        /\ file' = Saved(writable)

RenamePlayerCall ==
    \E old_name \in LedgerNames, new_name \in LedgerNames,
       writable \in BOOLEAN :
        LET saves == rename_saves(scores, old_name, new_name)
        IN  /\ ScoreCall(Call("rename_player", <<old_name, new_name>>,
                              IF saves /\ ~writable THEN "OSError"
                              ELSE IF rename_returns(scores, old_name, new_name)
                              THEN "True" ELSE "False"))
            /\ scores' = rename_player(scores, old_name, new_name)
            /\ file' = IF saves THEN Saved(writable) ELSE file

ClearScoresCall ==
    \E writable \in BOOLEAN :
        /\ ScoreCall(Call("clear_scores", <<>>,
                          IF writable THEN "None" ELSE "OSError"))
        /\ scores' = clear_scores(scores)
        /\ file' = Saved(writable)

GetHighScoresCall ==
    /\ ScoreCall(Call("get_high_scores", <<>>, get_high_scores(scores)))
    /\ UNCHANGED <<scores, file>>

NextScore ==
    \/ RecordGameCall
    \/ RenamePlayerCall
    \/ ClearScoresCall
    \/ GetHighScoresCall

SpecScore == InitScore /\ [][NextScore]_vars

\* ------------------------------------------------------------------ claims
\* The contestant who took the last decision, and the other one.
was == prev.current_index + 1
other_was == 2 - prev.current_index

RollBranches == {"invalid_roll", "bust", "rolled", "win_roll"}

LedgerAsBefore ==
    /\ scores = prev.scores
    /\ file = prev.file
    /\ recorded = prev.recorded

\* C1: win by roll. When the last step rolled a face above 1 and the roller's
\* banked score plus the turn total with that face reaches winning_score,
\* the turn total was committed to the roller, play() has returned, and
\* exactly one record_game call was made, for the roller's name with the
\* roller's score after the commit; the other contestant is untouched.
C1_WinByRoll ==
    (/\ branch \in RollBranches
     /\ values # <<>>
     /\ values[1] > 1
     /\ prev.players[was].total_score + prev.turn_total + values[1]
            >= winning_score)
    => /\ branch = "win_roll"
       /\ turn_total = prev.turn_total + values[1]
       /\ players[was].total_score
            = prev.players[was].total_score + turn_total
       /\ players[was].total_score >= winning_score
       /\ players[was].name = prev.players[was].name
       /\ players[other_was] = prev.players[other_was]
       /\ pc = "returned"
       /\ recorded = <<(<<players[was].name, players[was].total_score>>)>>
       /\ scores = record_game(prev.scores, players[was].name,
                               players[was].total_score)

C1_Witness ==
    /\ branch = "win_roll"
    /\ prev.turn_total > 0
    /\ players[was].total_score > winning_score
    /\ Len(recorded) = 1

\* C2: at most one win is recorded per match, and nothing is done after a
\* win: there is never more than one record_game call, a call is made only
\* by a winning branch that returns from play(), and no step is ever taken
\* from a state in which a record was written or play() had returned.
C2_AtMostOneWin ==
    /\ Len(recorded) <= 1
    /\ prev.recorded = <<>>
    /\ prev.pc # "returned"
    /\ recorded # <<>> =>
          /\ branch \in {"win_roll", "win_hold", "win_cheat"}
          /\ pc = "returned"
          /\ players[was].total_score >= winning_score

C2_Witness ==
    /\ Len(recorded) = 1
    /\ pc = "returned"
    /\ steps >= 4

\* C3: bust. When the last step rolled a 1, the turn total is 0, both banked
\* scores are what they were, the ledger is untouched, and the other
\* contestant is asked for the next decision.
C3_Bust ==
    (branch \in RollBranches /\ values = <<1>>)
    => /\ branch = "bust"
       /\ turn_total = 0
       /\ players = prev.players
       /\ LedgerAsBefore
       /\ current_index = 1 - prev.current_index
       /\ pc = "decide"

C3_Witness ==
    /\ branch = "bust"
    /\ prev.turn_total > 0
    /\ current_index # prev.current_index

\* C4: bank. A hold adds exactly the turn total to the holder's banked score
\* and touches nothing else of the players; if the result reaches
\* winning_score the match is won with one ledger record and play() returns,
\* otherwise the other contestant starts a turn with turn_total 0 and the
\* ledger is untouched.
C4_Bank ==
    branch \in {"banked", "win_hold"}
    => /\ players = [prev.players EXCEPT
                       ![was].total_score = @ + prev.turn_total]
       /\ IF players[was].total_score >= winning_score
          THEN /\ branch = "win_hold"
               /\ pc = "returned"
               /\ current_index = prev.current_index
               /\ recorded = <<(<<players[was].name,
                                  players[was].total_score>>)>>
          ELSE /\ branch = "banked"
               /\ pc = "decide"
               /\ current_index = 1 - prev.current_index
               /\ turn_total = 0
               /\ LedgerAsBefore

C4_Witness ==
    /\ branch = "banked"
    /\ prev.turn_total > 0
    /\ prev.players[was].total_score > 0

\* C5: cheat. A cheat adds exactly 50 to the cheater's banked score whatever
\* the turn total is, then applies the win test of a hold: a win with one
\* ledger record, or the end of the turn with the other contestant active.
C5_Cheat ==
    branch \in {"cheated", "win_cheat"}
    => /\ players = [prev.players EXCEPT ![was].total_score = @ + 50]
       /\ IF players[was].total_score >= winning_score
          THEN /\ branch = "win_cheat"
               /\ pc = "returned"
               /\ current_index = prev.current_index
               /\ recorded = <<(<<players[was].name,
                                  players[was].total_score>>)>>
          ELSE /\ branch = "cheated"
               /\ pc = "decide"
               /\ current_index = 1 - prev.current_index
               /\ LedgerAsBefore

C5_Witness ==
    /\ branch = "cheated"
    /\ prev.turn_total > 0

\* C6: strict alternation. After a bust, an invalid roll, a non-winning bank
\* and a non-winning cheat the active index is the other one; after a
\* continuing roll, help, a rename, a difficulty change and rejected input
\* it is the same one.
C6_Alternation ==
    /\ current_index \in {0, 1}
    /\ branch \in {"bust", "invalid_roll", "banked", "cheated"}
          => current_index = 1 - prev.current_index
    /\ branch \in {"rolled", "help", "unknown", "renamed", "renamed_local",
                   "name_cancel", "ai_set", "ai_cancel", "ai_none"}
          => current_index = prev.current_index /\ pc = "decide"

C6_Witness ==
    /\ branch = "invalid_roll"
    /\ prev.current_index = 1
    /\ current_index = 0

\* C7: restart. Whatever the turn total and the scores were, a restart leaves
\* both banked scores at 0 and the turn total at 0, makes no record_game
\* call and leaves the ledger and its file as they were.
C7_Restart ==
    branch = "restart"
    => /\ \A i \in 1 .. 2 : players[i].total_score = 0
       /\ \A i \in 1 .. 2 : players[i].name = prev.players[i].name
       /\ turn_total = 0
       /\ LedgerAsBefore

C7_Witness ==
    /\ branch = "restart"
    /\ prev.turn_total > 0
    /\ \A i \in 1 .. 2 : prev.players[i].total_score > 0

\* C8: after a restart, whichever contestant issued it, contestant 0 starts
\* a turn (current_index = 0, turn_total = 0).
C8_RestartResumesAtZero ==
    branch = "restart" => current_index = 0 /\ turn_total = 0

\* C9: quit. A quit command, or end of input at the command prompt, is
\* accepted in every state in which a human is asked for a decision; it
\* returns from play() with running FALSE, writes nothing to the ledger and
\* leaves both players and the turn total as they were.
C9_Quit ==
    /\ (pc = "decide" /\ ~current.is_ai) => ENABLED EndOfInput
    /\ (pc = "decide" /\ ~current.is_ai /\ steps < MaxSteps) => ENABLED Quit
    /\ branch \in {"quit", "eof"}
          => /\ pc = "returned"
             /\ running = FALSE
             /\ players = prev.players
             /\ turn_total = prev.turn_total
             /\ current_index = prev.current_index
             /\ LedgerAsBefore

C9_Witness ==
    /\ branch = "quit"
    /\ turn_total > 0
    /\ players[was].total_score > 0

\* C10: rejected input never mutates state. After an unknown command, help,
\* a name change cancelled with an empty name, and a difficulty change that
\* is cancelled or asked for with no automated contestant, the players, the
\* turn total, the active index, the policy's difficulty and threshold and
\* the ledger are what they were, and the same contestant is asked again.
C10_RejectedInput ==
    branch \in {"unknown", "help", "name_cancel", "ai_cancel", "ai_none"}
    => /\ players = prev.players
       /\ turn_total = prev.turn_total
       /\ current_index = prev.current_index
       /\ difficulty = prev.difficulty
       /\ hold_threshold = prev.hold_threshold
       /\ LedgerAsBefore
       /\ running
       /\ pc = "decide"

C10_Witness ==
    /\ branch = "unknown"
    /\ turn_total > 0
    /\ players[was].total_score > 0

\* C11: turn_total is 0 when a turn begins and in the state every
\* turn-ending transition leaves: a bust, a bank (winning or not) and a cheat
\* (winning or not).
C11_TurnTotalReset ==
    branch \in {"turn_start", "bust", "invalid_roll", "restart", "banked",
                "win_hold", "cheated", "win_cheat"}
    => turn_total = 0

\* C13: over the operations of a match no banked score decreases from one
\* state to the next, except that a restart sets it to zero.
C13_ScoreNeverDecreases ==
    \A i \in 1 .. 2 :
        \/ players[i].total_score >= prev.players[i].total_score
        \/ branch = "restart" /\ players[i].total_score = 0

C13_Witness ==
    /\ branch = "bust"
    /\ prev.turn_total > 0
    /\ \A i \in 1 .. 2 : players[i].total_score > 0

\* C15: rename during a match. A rename with a non-empty new name makes one
\* rename_player(old name, new name) call on the ledger and sets the active
\* contestant's name to the new name whether the call reports success or
\* not; scores, the other name, the turn total and the active index stay,
\* and the same contestant is asked again.
C15_Rename ==
    /\ ret.op = "rename_player" <=> branch \in {"renamed", "renamed_local"}
    /\ branch \in {"renamed", "renamed_local"}
          => /\ ret.args[1] = prev.players[was].name
             /\ ret.args[2] # ""
             /\ ret.val = "True" <=> branch = "renamed"
             /\ ret.val = "True" <=> ret.args[1] \in Keys(prev.scores)
             /\ players = [prev.players EXCEPT ![was].name = ret.args[2]]
             /\ turn_total = prev.turn_total
             /\ current_index = prev.current_index
             /\ recorded = prev.recorded
             /\ pc = "decide"

C15_Witness ==
    /\ branch = "renamed_local"
    /\ players[was].name = "Neo"
    /\ prev.players[was].name = "P1"
    /\ turn_total > 0
    /\ players[was].total_score > 0

\* The last call was a decision of the policy; its three arguments.
Decided == ret.op = "decide"
arg_turn_total == ret.args[1]
arg_my_score == ret.args[2]
arg_opponent_score == ret.args[3]

\* C16: immediate-win rule. For every difficulty, opponent score and
\* winning_score of the match, decide returns hold whenever own score +
\* turn total >= winning_score, the boundary of equality included.
C16_ImmediateWin ==
    Decided /\ arg_my_score + arg_turn_total >= winning_score
    => ret.val = "hold"

HardReference(t, own, opp, target) ==
    LET adjusted == 25 + (IF own < opp THEN 3 ELSE 0)
                       - (IF own - opp > 15 THEN 3 ELSE 0)
                       - (IF opp >= 90 THEN 2 ELSE 0)
    IN  IF 12 * (own + t) + 35 >= 12 * target
        THEN (IF 175 > 12 * t THEN "roll" ELSE "hold")
        ELSE IF t >= adjusted THEN "hold"
        ELSE IF t >= 30 THEN "hold" ELSE "roll"

C20_HardGapAtTwenty ==
    Decided /\ difficulty = "hard" /\ arg_turn_total = 20
            /\ arg_opponent_score < 90
            /\ 12 * (arg_my_score + arg_turn_total) + 35 < 12 * winning_score
    => /\ arg_my_score < arg_opponent_score => ret.val = "roll"
       /\ arg_my_score - arg_opponent_score > 15 => ret.val = "hold"

\* C12: every player's total_score is at least 0 in every reachable state;
\* add_score and set_score called with a negative amount raise ValueError and
\* leave the score exactly as it was.
C12_ScoreNonNegative ==
    /\ \A i \in 1 .. 2 : players[i].total_score >= 0
    /\ ret.op \in {"add_score", "set_score"} /\ ret.args[2] < 0
          => /\ ret.val = "ValueError"
             /\ players = prev.players

C12_Witness ==
    /\ ret.op = "add_score"
    /\ ret.args[2] < 0
    /\ players[ret.args[1]].total_score > 0

\* C14: constructing a match with a number of players other than two raises
\* ValueError before any attribute of the match (players, current_index,
\* turn_total, running, ...) is created.
C14_TwoPlayersOnly ==
    ret.op = "PigGame" /\ Len(ret.args[1]) # 2
    => /\ ret.val = "ValueError"
       /\ attrs = {}
       /\ pc = "absent"

C14_Witness ==
    /\ ret.op = "PigGame"
    /\ Len(ret.args[1]) = 3
    /\ ret.val = "ValueError"
    /\ attrs = {}

\* C21: hard level with the opponent close to winning (opponent score 90 or
\* more, e.g. own 50 against 92): decide returns hold at a turn total of 10.
C21_HardOpponentNearWin ==
    Decided /\ difficulty = "hard" /\ arg_opponent_score >= 90
            /\ arg_turn_total = 10
    => ret.val = "hold"

\* What a decision leaves alone: the policy's level and threshold, the match
\* and the ledger.
DecideFrame ==
    Decided
    => /\ difficulty = prev.difficulty
       /\ hold_threshold = prev.hold_threshold
       /\ players = prev.players
       /\ current_index = prev.current_index
       /\ turn_total = prev.turn_total
       /\ running = prev.running
       /\ scores = prev.scores
       /\ file = prev.file
       /\ recorded = prev.recorded

\* Once a decision has come out as v under level d, every later decision
\* under level d with the same arguments comes out as v.
SameAnswer(d, v) ==
    [](Decided /\ difficulty = d /\ ret.val = v
          => [](Decided /\ difficulty = d
                   /\ ret.args = <<turn_total, current.total_score,
                                   opponent.total_score>>
                   => ret.val = v))

DifficultySet == ret.op = "set_difficulty"
arg_level == ret.args[1]

\* C23: set_difficulty with easy, medium or hard sets the difficulty to that
\* level and the threshold to 15, 20 or 25, and the very next decide uses the
\* new level; with any other level it raises ValueError and leaves the
\* difficulty and the threshold as they were.
C23_SetDifficulty ==
    /\ [](DifficultySet /\ arg_level \in {"easy", "medium", "hard"}
             => /\ ret.val = "None"
                /\ difficulty = arg_level
                /\ hold_threshold = (CASE arg_level = "easy" -> 15
                                       [] arg_level = "medium" -> 20
                                       [] arg_level = "hard" -> 25))
    /\ [](DifficultySet /\ arg_level \notin {"easy", "medium", "hard"}
             => /\ ret.val = "ValueError"
                /\ difficulty = prev.difficulty
                /\ hold_threshold = prev.hold_threshold)
    /\ [][ DifficultySet /\ ret.val = "None" /\ ret'.op = "decide"
           => ret'.val = decide(arg_level,
                                set_difficulty(arg_level).hold_threshold,
                                ret'.args[1], ret'.args[2], ret'.args[3]) ]_vars

C23_Witness ==
    /\ DifficultySet
    /\ arg_level = "impossible"
    /\ ret.val = "ValueError"
    /\ difficulty = "hard"
    /\ hold_threshold = 25

\* The last call on the ledger, its arguments, and the ledger before it.
Recorded == ret.op = "record_game"
Renamed == ret.op = "rename_player"
before == prev.scores
GamesOf(s, name) == IF name \in Keys(s) THEN Entry(s, name).games ELSE <<>>
TotalOf(s, name) == IF name \in Keys(s) THEN Entry(s, name).total_points ELSE 0

\* C24: record_game(name, points) creates the entry when it is absent,
\* appends one record {today, points} at the end of the name's games and
\* adds exactly points to its total_points; zero and negative points are
\* taken without validation; every other entry stays as it was.
C24_RecordGame ==
    Recorded
    => LET name == ret.args[1]
           points == ret.args[2]
       IN  /\ ret.val # "ValueError"
           /\ Keys(scores) = Keys(before) \cup {name}
           /\ Len(scores) = Cardinality(Keys(scores))
           /\ GamesOf(scores, name)
                 = Append(GamesOf(before, name),
                          [date |-> Today, points |-> points])
           /\ TotalOf(scores, name) = TotalOf(before, name) + points
           /\ \A other \in Keys(before) \ {name} :
                 Entry(scores, other) = Entry(before, other)

C24_Witness ==
    /\ Recorded
    /\ ret.args[2] < 0
    /\ ret.args[1] \notin Keys(before)
    /\ Len(before) = 2
    /\ TotalOf(scores, ret.args[1]) < 0

RECURSIVE SumPoints(_)
SumPoints(games) ==
    IF games = <<>> THEN 0
    ELSE games[1].points + SumPoints(Tail(games))

\* C25: starting from an empty ledger, after any sequence of record_game,
\* rename_player and clear_scores calls every entry's total_points is the sum
\* of the points of its games.
C25_TotalIsSum ==
    \A i \in 1 .. Len(scores) :
        scores[i].total_points = SumPoints(scores[i].games)

C25_Witness ==
    /\ Renamed
    /\ ret.args[1] # ret.args[2]
    /\ ret.args[1] \in Keys(before)
    /\ ret.args[2] \in Keys(before)
    /\ TotalOf(before, ret.args[1]) = 10
    /\ TotalOf(before, ret.args[2]) = -5
    /\ TotalOf(scores, ret.args[2]) = 5

\* C26: merge. When the old and the new name both have entries and differ,
\* afterwards the new name's games are its previous games followed by the
\* old name's games in their order, its total_points is the sum of the two
\* totals, the old entry is gone, and the call returns True.
C26_Merge ==
    Renamed /\ ret.args[1] \in Keys(before) /\ ret.args[2] \in Keys(before)
            /\ ret.args[1] # ret.args[2]
    => LET old == ret.args[1]
           new == ret.args[2]
       IN  /\ GamesOf(scores, new)
                 = GamesOf(before, new) \o GamesOf(before, old)
           /\ new \in Keys(scores)
           /\ TotalOf(scores, new)
                 = TotalOf(before, new) + TotalOf(before, old)
           /\ old \notin Keys(scores)
           /\ ret.val # "OSError" => ret.val = "True"

C26_Witness ==
    /\ Renamed
    /\ ret.val = "True"
    /\ ret.args[1] # ret.args[2]
    /\ ret.args[2] \in Keys(before)
    /\ Len(GamesOf(before, ret.args[1])) = 2
    /\ GamesOf(before, ret.args[1])[1].points = 10
    /\ GamesOf(before, ret.args[1])[2].points = -5
    /\ Len(GamesOf(before, ret.args[2])) = 1
    /\ Len(GamesOf(scores, ret.args[2])) = 3

\* C27: no-op cases. With no entry for the old name the call returns False;
\* with old name = new name and the entry present it returns True; either
\* way the ledger in memory is as before and nothing is written.
C27_RenameNoOp ==
    /\ Renamed /\ ret.args[1] \notin Keys(before)
          => ret.val = "False" /\ scores = before /\ file = prev.file
    /\ Renamed /\ ret.args[1] \in Keys(before) /\ ret.args[1] = ret.args[2]
          => ret.val = "True" /\ scores = before /\ file = prev.file

C27_Witness ==
    /\ Renamed
    /\ ret.args[1] = ret.args[2]
    /\ ret.val = "True"
    /\ Len(scores) = 2
    /\ file # save_scores(scores)

\* C28: pure rename. When the old name has an entry and the new name has
\* none, afterwards the new name holds exactly the old name's games and
\* total_points, the old name is absent, every other entry is unchanged and
\* the call returns True.
C28_PureRename ==
    Renamed /\ ret.args[1] \in Keys(before) /\ ret.args[2] \notin Keys(before)
    => LET old == ret.args[1]
           new == ret.args[2]
       IN  /\ new \in Keys(scores)
           /\ Entry(scores, new) = [Entry(before, old) EXCEPT !.name = new]
           /\ old \notin Keys(scores)
           /\ Keys(scores) = (Keys(before) \ {old}) \cup {new}
           /\ Len(scores) = Len(before)
           /\ \A other \in Keys(before) \ {old} :
                 Entry(scores, other) = Entry(before, other)
           /\ ret.val # "OSError" => ret.val = "True"

C28_Witness ==
    /\ Renamed
    /\ ret.val = "True"
    /\ ret.args[2] \notin Keys(before)
    /\ Len(GamesOf(scores, ret.args[2])) = 2
    /\ Len(scores) = 2

\* C29: write-through. When record_game, a rename_player that returned True
\* and changed the ledger, or clear_scores returns, the file holds exactly
\* the whole ledger in memory (both empty after clear_scores): a write
\* replaces the stored mapping, it does not add to it.
C29_WriteThrough ==
    /\ ret.op \in {"record_game", "clear_scores"} /\ ret.val = "None"
          => file = save_scores(scores) /\ load_scores(file) = scores
    /\ Renamed /\ ret.val = "True" /\ scores # before
          => file = save_scores(scores) /\ load_scores(file) = scores
    /\ ret.op = "clear_scores" /\ ret.val = "None"
          => scores = <<>> /\ file.exists /\ file.doc = <<>>

C29_Witness ==
    /\ Recorded
    /\ ret.val = "None"
    /\ prev.file.exists
    /\ \E i \in 1 .. Len(prev.file.doc) :
          prev.file.doc[i][1] \notin Keys(scores)
    /\ file = save_scores(scores)

\* C30: get_high_scores returns every entry exactly once, by total_points
\* descending, entries with equal total_points in the insertion order of the
\* ledger; the call does not modify the ledger.
C30_HighScores ==
    ret.op = "get_high_scores"
    => LET r == ret.val
       IN  /\ Len(r) = Len(scores)
           /\ {r[i][1] : i \in 1 .. Len(r)} = Keys(scores)
           /\ \A i \in 1 .. Len(r) :
                 /\ r[i][2].games = Entry(scores, r[i][1]).games
                 /\ r[i][2].total_points = Entry(scores, r[i][1]).total_points
           /\ \A i \in 1 .. Len(r), j \in 1 .. Len(r) :
                 i < j
                 => /\ r[i][2].total_points >= r[j][2].total_points
                    /\ r[i][2].total_points = r[j][2].total_points
                          => IndexOf(scores, r[i][1]) < IndexOf(scores, r[j][1])
           /\ scores = before
           /\ file = prev.file

C30_Witness ==
    /\ ret.op = "get_high_scores"
    /\ Len(scores) = 3
    /\ scores[1].total_points = 0
    /\ scores[2].total_points = 10
    /\ scores[3].total_points = 0
    /\ ret.val[2][1] = scores[1].name
    /\ ret.val[3][1] = scores[3].name

Writing ==
    \/ ret.op \in {"record_game", "clear_scores"}
    \/ Renamed /\ scores # before

\* C32: persistence failure. When the file cannot be written during
\* record_game, rename_player or clear_scores, the error reaches the caller
\* and the ledger in memory keeps the update that was being saved.
C32_WriteFailure ==
    /\ Writing /\ file # save_scores(scores) => ret.val = "OSError"
    /\ Writing /\ ret.val = "OSError"
          => /\ file = prev.file
             /\ Recorded
                   => scores = record_game(before, ret.args[1], ret.args[2])
             /\ Renamed
                   => scores = rename_player(before, ret.args[1], ret.args[2])
             /\ ret.op = "clear_scores" => scores = <<>>
    /\ Recorded => scores # before

C32_Witness ==
    /\ Recorded
    /\ ret.val = "OSError"
    /\ prev.file = save_scores(before)
    /\ Len(before) = 1
    /\ Len(scores) = 2
    /\ file # save_scores(scores)

RECURSIVE SumTotals(_)
SumTotals(s) ==
    IF s = <<>> THEN 0 ELSE s[1].total_points + SumTotals(Tail(s))

RECURSIVE AllGames(_)
AllGames(s) == IF s = <<>> THEN <<>> ELSE s[1].games \o AllGames(Tail(s))

\* How many times the record g occurs in the sequence of records.
Occurrences(games, g) == Cardinality({i \in 1 .. Len(games) : games[i] = g})

\* C39: rename_player (failed, no-op, pure rename or merge) leaves the sum
\* of total_points over all entries and the number of game records over all
\* entries unchanged; no record is lost or duplicated; only clear_scores
\* removes records.
C39_RenameConserves ==
    /\ Renamed
          => /\ SumTotals(scores) = SumTotals(before)
             /\ Len(AllGames(scores)) = Len(AllGames(before))
             /\ \A p \in LedgerPoints :
                   Occurrences(AllGames(scores), Game(p))
                      = Occurrences(AllGames(before), Game(p))
    /\ Len(AllGames(scores)) < Len(AllGames(before))
          => ret.op = "clear_scores"

C39_Witness ==
    /\ Renamed
    /\ Len(scores) < Len(before)
    /\ Len(AllGames(scores)) = 3
    /\ SumTotals(scores) = 5

\* C33: invalid roll. When the dice hand returns no value the turn total is
\* set to 0, the active player's total_score is unchanged, nothing is written
\* to the ledger, the turn ends and the other player becomes active, as for
\* a bust.
C33_InvalidRoll ==
    branch = "invalid_roll"
    => /\ values = <<>>
       /\ turn_total = 0
       /\ players = prev.players
       /\ LedgerAsBefore
       /\ current_index = 1 - prev.current_index
       /\ running
       /\ pc = "decide"

C33_Witness ==
    /\ branch = "invalid_roll"
    /\ prev.turn_total > 0
    /\ players[was].total_score > 0
    /\ current_index = 1

\* C35: progress of the computer. For every configured winning_score, values
\* above 100 included, and every difficulty, at the start of the computer's
\* turn (turn total 0, own score below winning_score) decide returns roll.
C35_RollsAtTurnStart ==
    Decided /\ arg_turn_total = 0 /\ arg_my_score < winning_score
    => ret.val = "roll"

\* The threshold of the hard level after its adjustments.
AdjustedThreshold(own, opp) ==
    25 + (IF own < opp THEN 3 ELSE 0)
       - (IF own - opp > 15 THEN 3 ELSE 0)
       - (IF opp >= 90 THEN 2 ELSE 0)

Won == Len(recorded) > Len(prev.recorded)

\* C34: in a match started with both total_scores at 0, at every point where
\* a decision is requested the active player's total_score + turn_total is
\* strictly below winning_score; so a hold never produces a win and every
\* win comes from a roll or a cheat.
C34_BelowTargetAtDecision ==
    /\ pc = "decide" => current.total_score + turn_total < winning_score
    /\ branch # "win_hold"
    /\ Won => branch \in {"win_roll", "win_cheat"}

C34_Witness ==
    /\ pc = "decide"
    /\ branch = "rolled"
    /\ current.total_score > 0
    /\ turn_total > 0
    /\ current.total_score + turn_total = winning_score - 1

\* C38: in a match started with both total_scores at 0 and a six-sided die,
\* the points written to the ledger on a win are at least winning_score and
\* at most winning_score + 49, and at most winning_score + 5 when the win
\* comes from a roll.
C38_RecordedBounds ==
    /\ \A k \in 1 .. Len(recorded) :
          /\ recorded[k][2] >= winning_score
          /\ recorded[k][2] <= winning_score + 49
    /\ branch = "win_roll"
          => recorded[Len(recorded)][2] <= winning_score + 5

C38_Witness ==
    /\ branch = "win_cheat"
    /\ recorded = <<<<players[was].name, winning_score + 49>>>>

\* The name a player of the match was constructed with.
FirstName(i) == IF i = 1 THEN "P1" ELSE "P2"

\* C40: after a player is renamed during a match, a later win by that player
\* is recorded under the new name and never under the old one, and the win
\* record is appended after the history migrated to the new name's entry.
\* A rename leaves the player under the new name; a name changes only by
\* the player's own rename; a win is recorded under the winner's name of
\* that moment, at the end of that name's entry.
C40_WinUnderNewName ==
    /\ [](branch \in {"renamed", "renamed_local"}
             => players[was].name = ret.args[2])
    /\ [][ \A i \in 1 .. 2 :
              players'[i].name # players[i].name
              => /\ branch' \in {"renamed", "renamed_local"}
                 /\ current_index + 1 = i
                 /\ ret'.args[2] = players'[i].name ]_vars
    /\ [](Won
             => /\ recorded = Append(prev.recorded,
                                     <<players[was].name,
                                       players[was].total_score>>)
                /\ players[was].name = prev.players[was].name
                /\ GamesOf(scores, players[was].name)
                      = Append(GamesOf(prev.scores, players[was].name),
                               Game(players[was].total_score))
                /\ \A other \in Keys(prev.scores) \ {players[was].name} :
                      Entry(scores, other) = Entry(prev.scores, other)
                /\ Keys(scores) = Keys(prev.scores) \cup {players[was].name})

C40_Witness ==
    /\ Won
    /\ was = 1
    /\ players[was].name = "Neo"
    /\ FirstName(was) \notin Keys(scores)
    /\ GamesOf(scores, "Neo")
          = <<Game(5), Game(10), Game(players[was].total_score)>>

\* The computer's turn is still running.
AiTurnOpen == pc = "decide" /\ current.is_ai

\* C36: an automated player's turn always terminates whatever the die
\* produces. For every level set through set_difficulty and the scores of
\* the turn, decide returns "hold" for every turn total of 28 or more; every
\* roll of a face above 1 adds at least 2 to the turn total; no roll is made
\* after the 14th; and the turn ends (bust, invalid roll, hold or win).
C36_AiTurnTerminates ==
    /\ [](AiTurnOpen
             => /\ \A t \in 28 .. MaxTurnTotal :
                      decide(difficulty, hold_threshold, t,
                             current.total_score, opponent.total_score)
                         = "hold"
                /\ turn_total >= 2 * steps)
    /\ [](branch \in {"rolled", "win_roll"}
             => turn_total >= prev.turn_total + 2)
    /\ [](branch \in RollBranches => steps <= 14)
    /\ <>(~AiTurnOpen)

C36_Witness ==
    /\ steps = 15
    /\ prev.turn_total = 28
    /\ branch \notin RollBranches
    /\ ~AiTurnOpen
    /\ players[was].total_score = prev.players[was].total_score + 28

====
